---- MODULE Spec2Model ----
(***************************************************************************)
(* Location-memory Record Store and Memory Composer of the Memories        *)
(* screen (MemoriesScreen): loadMemories, saveMemories, getCurrentLocation,*)
(* createMemory and deleteMemory, with the React state they read and set.  *)
(*                                                                         *)
(* A handler reads the state of the render in which it was created: the    *)
(* values of title, description, selectedEmoji, capturedPhoto and memories *)
(* are captured when the user taps, and an await in the handler is a       *)
(* suspension point at which other handlers run.  Each flow therefore      *)
(* carries the captured values, and each await is a separate action.       *)
(*                                                                         *)
(* Environment: Date.now() is read from the variable now, which never      *)
(* decreases; two readings may return the same millisecond.                *)
(*                                                                         *)
(* Spec is the whole screen.  Two specifications restrict it so that it    *)
(* can be explored: StoreSpec leaves emoji, description and photo at their *)
(* defaults and lets the store grow to MaxMemories records across          *)
(* relaunches of the app; ComposerSpec edits every form field, within one  *)
(* launch and with a store of at most ComposerMaxMemories records.         *)
(***************************************************************************)
EXTENDS Integers, Sequences, FiniteSets, TLC

\* ---------------------------------------------------------------- bounds
MaxTime == 1
MaxMemories == 2
ComposerMaxMemories == 1
MaxPhotoLoads == 1
MaxMessages == 1
MaxPhotoDeletes == 1
MaxOverlappingLoads == 2

\* ------------------------------------------------------ JavaScript values
Undefined == "undefined"
Null == "null"

\* Strings are sequences of characters, so that trim() is computed.
TitleInputs == {<<" ">>, <<" ", "a", " ">>}
DescriptionInputs == {<<>>, <<" ", "d">>}
EMOJI_LIST == {"pin", "coffee"}
PhotoUris == {"file1"}
Coords == {[latitude |-> 40, longitude |-> -73]}
Addresses == {<<>>, <<"s", ",", " ", "c">>}

RECURSIVE TrimStart(_)
TrimStart(s) ==
  IF s # <<>> /\ Head(s) = " " THEN TrimStart(Tail(s)) ELSE s

RECURSIVE TrimEnd(_)
TrimEnd(s) ==
  IF s # <<>> /\ s[Len(s)] = " " THEN TrimEnd(SubSeq(s, 1, Len(s) - 1)) ELSE s

\* A title test that forgets to trim.
TrimNothing(s) == s

Trim(s) == TrimEnd(TrimStart(s))

\* A property read: a key the object lacks reads as undefined.
Get(o, k) == IF k \in DOMAIN o THEN o[k] ELSE Undefined

\* The keys of a LocationMemory, in the order the object literal of
\* createMemory lists them (JSON.stringify writes keys in that order).
KeyOrder ==
  <<"id", "title", "description", "emoji", "photoUri", "location", "timestamp">>

\* The keys the interface LocationMemory declares optional (photoUri?); only
\* these can hold undefined.
OptionalKeys == {"photoUri"}

\* A stringify that writes null for a member that is undefined.
StringifyObjectNullForUndefined(o) ==
  LET present == SelectSeq(KeyOrder, LAMBDA k : k \in DOMAIN o)
  IN  [i \in 1..Len(present) |->
         <<present[i],
           IF present[i] \in OptionalKeys /\ o[present[i]] = Undefined
           THEN Null ELSE o[present[i]]>>]

\* JSON.stringify of one object: the <<key, value>> members in key order; a
\* key whose value is undefined is left out.
StringifyObject(o) ==
  LET present == SelectSeq(KeyOrder, LAMBDA k :
                   /\ k \in DOMAIN o
                   /\ ~(k \in OptionalKeys /\ o[k] = Undefined))
  IN  [i \in 1..Len(present) |-> <<present[i], o[present[i]]>>]

\* JSON.parse of one object: an object with exactly the members of the text.
ParseObject(members) ==
  [k \in {members[i][1] : i \in DOMAIN members} |->
     members[CHOOSE i \in DOMAIN members : members[i][1] = k][2]]

\* JSON.stringify / JSON.parse of the array of memories.
JSONstringify(ms) == [i \in 1..Len(ms) |-> StringifyObject(ms[i])]
JSONparse(text) == [i \in 1..Len(text) |-> ParseObject(text[i])]

\* A comparator that orders oldest first.
CompareAscending(a, b) == a.timestamp - b.timestamp

\* The comparator of both sorts: (a, b) => b.timestamp - a.timestamp.
Compare(a, b) == b.timestamp - a.timestamp

\* An insertion that puts an element before those it ties with.
RECURSIVE InsertBeforeTies(_, _)
InsertBeforeTies(sorted, x) ==
  IF sorted = <<>> THEN <<x>>
  ELSE IF Compare(Head(sorted), x) < 0
       THEN <<Head(sorted)>> \o InsertBeforeTies(Tail(sorted), x)
       ELSE <<x>> \o sorted

\* Array.prototype.sort is stable: an element goes after every element that
\* the comparator does not put behind it.
RECURSIVE Insert(_, _)
Insert(sorted, x) ==
  IF sorted = <<>> THEN <<x>>
  ELSE IF Compare(Head(sorted), x) <= 0
       THEN <<Head(sorted)>> \o Insert(Tail(sorted), x)
       ELSE <<x>> \o sorted

RECURSIVE SortFrom(_, _)
SortFrom(sorted, rest) ==
  IF rest = <<>> THEN sorted
  ELSE SortFrom(Insert(sorted, Head(rest)), Tail(rest))

Sort(ms) == SortFrom(<<>>, ms)

\* A removal that stops at the first record of the id.
RECURSIVE FilterOutFirst(_, _)
FilterOutFirst(ms, id) ==
  IF ms = <<>> THEN <<>>
  ELSE IF Head(ms).id # id
       THEN <<Head(ms)>> \o FilterOutFirst(Tail(ms), id)
       ELSE Tail(ms)

\* memories.filter(m => m.id !== id)
RECURSIVE FilterOut(_, _)
FilterOut(ms, id) ==
  IF ms = <<>> THEN <<>>
  ELSE IF Head(ms).id # id
       THEN <<Head(ms)>> \o FilterOut(Tail(ms), id)
       ELSE FilterOut(Tail(ms), id)

\* ------------------------------------------------ Gallery values (gallery.tsx)
\* getAssetsAsync is called with first: 50; the page is scaled to PageSize.
PageSize == 2

AssetUri(id) == <<"ph://", id>>
LocalUri(id) == <<"file://", id>>

\* MediaLibrary.Asset: what the device photo store knows of a photo.
Asset(id, creationTime) ==
  [id |-> id, uri |-> AssetUri(id), creationTime |-> creationTime,
   filename |-> <<id, ".jpg">>]

Assets == {Asset("a", 5), Asset("b", 3), Asset("c", 8)}

\* The pages getAssetsAsync can resolve with: at most PageSize assets, each
\* once.  The photo store belongs to the device and changes under the app,
\* so that two queries need not agree.
QueryResults ==
  UNION {{q \in [1..n -> Assets] : \A i, j \in 1..n : q[i] = q[j] => i = j} :
           n \in 0..PageSize}

\* getAssetInfoAsync resolves with a localUri, resolves without one, or rejects.
InfoOutcomes == {"localUri", "noLocalUri", "throws"}

\* getPhotoInfo: the Photo of an asset; the catch block falls back to the
\* asset's own uri and leaves localUri out.
getPhotoInfo(asset, outcome) ==
  CASE outcome = "localUri" ->
         [id |-> asset.id, uri |-> LocalUri(asset.id),
          creationTime |-> asset.creationTime, filename |-> asset.filename,
          localUri |-> LocalUri(asset.id)]
    [] outcome = "noLocalUri" ->
         [id |-> asset.id, uri |-> asset.uri,
          creationTime |-> asset.creationTime, filename |-> asset.filename,
          localUri |-> Undefined]
    [] outcome = "throws" ->
         [id |-> asset.id, uri |-> asset.uri,
          creationTime |-> asset.creationTime, filename |-> asset.filename]

\* A batch that leaves out the assets whose resolution failed.
PhotoInfosSkippingFailures(assets, outcomes) ==
  LET kept == SelectSeq([i \in 1..Len(assets) |-> i],
                        LAMBDA i : outcomes[i] # "throws")
  IN  [k \in 1..Len(kept) |-> getPhotoInfo(assets[kept[k]], outcomes[kept[k]])]

\* Promise.all(assets.map(asset => getPhotoInfo(asset)))
PhotoInfos(assets, outcomes) ==
  [i \in 1..Len(assets) |-> getPhotoInfo(assets[i], outcomes[i])]

\* A map in which the first photo set for an id stays.
MapSetKeepingFirst(entries, photo) ==
  IF \E i \in 1..Len(entries) : entries[i].id = photo.id
  THEN entries
  ELSE Append(entries, photo)

\* photoMap.set(photo.id, photo): a Map keeps its entries in the order their
\* keys were first set; setting a key again replaces the value in place.
MapSet(entries, photo) ==
  IF \E i \in 1..Len(entries) : entries[i].id = photo.id
  THEN [i \in 1..Len(entries) |->
          IF entries[i].id = photo.id THEN photo ELSE entries[i]]
  ELSE Append(entries, photo)

RECURSIVE MapSetAll(_, _)
MapSetAll(entries, ps) ==
  IF ps = <<>> THEN entries
  ELSE MapSetAll(MapSet(entries, Head(ps)), Tail(ps))

\* (a, b) => b.creationTime - a.creationTime
ComparePhotos(a, b) == b.creationTime - a.creationTime

RECURSIVE InsertPhoto(_, _)
InsertPhoto(sorted, x) ==
  IF sorted = <<>> THEN <<x>>
  ELSE IF ComparePhotos(Head(sorted), x) <= 0
       THEN <<Head(sorted)>> \o InsertPhoto(Tail(sorted), x)
       ELSE <<x>> \o sorted

RECURSIVE SortPhotosFrom(_, _)
SortPhotosFrom(sorted, rest) ==
  IF rest = <<>> THEN sorted
  ELSE SortPhotosFrom(InsertPhoto(sorted, Head(rest)), Tail(rest))

\* A merge that sorts [...allPhotos, ...recentPhotos] without the Map.
UniquePhotosUnmerged(allPhotos, recentPhotos) ==
  SortPhotosFrom(<<>>, allPhotos \o recentPhotos)

\* Array.from(photoMap.values()).sort(...) over [...allPhotos, ...recentPhotos]
UniquePhotos(allPhotos, recentPhotos) ==
  SortPhotosFrom(<<>>, MapSetAll(<<>>, allPhotos \o recentPhotos))

\* ------------------------------------------------------------------ state
VARIABLES
  now,            \* the reading Date.now() returns
  storage,        \* AsyncStorage item 'locationMemories'
  memories,       \* useState<LocationMemory[]>
  modalVisible,   \* composer modal
  loading,        \* in-flight flag of createMemory
  title, description, selectedEmoji, capturedPhoto,   \* form state
  loadPc,         \* the loadMemories() call of useEffect
  create,         \* the createMemory() call in flight
  del,            \* the deleteMemory() prompt and its save
  picker,         \* the pickImage() / takePhoto() call in flight
  alerts,         \* Alert.alert dialogs not yet dismissed
  \* Gallery (gallery.tsx)
  galleryPermission,  \* MediaLibrary.usePermissions() of the gallery
  photos,             \* useState<Photo[]>
  galleryLoading,     \* useState loading of the gallery
  photoLoads,         \* the loadPhotos() calls in flight
  selectedPhoto,      \* useState<Photo | null>: <<>> for null, else <<photo>>
  galleryModalVisible,  \* useState modalVisible of the gallery
  photoPrompt,        \* the photo id of the open 'Delete Photo' prompt, or ""
  photoDeletes,       \* the photo ids of the deletePhoto() calls in flight
  \* camera screen (App)
  cameraPermission,   \* useCameraPermissions()
  mediaPermission,    \* MediaLibrary.usePermissions() of the camera screen
  isCapturing,        \* in-flight flag of takePicture
  capture,            \* the takePicture() call in flight
  \* MapScreen
  mapMemories,        \* useState<LocationMemory[]> memories of MapScreen
  selectedMemory,     \* useState<LocationMemory | null>
  mapModalVisible,    \* useState modalVisible of MapScreen
  mapLoadPc,          \* the loadMemories() call of MapScreen's useEffect
  mapMessages         \* messages the WebView has posted, not yet handled

memoriesVars == <<now, storage, memories, modalVisible, loading, title,
                  description, selectedEmoji, capturedPhoto, loadPc, create,
                  del, picker>>
galleryVars == <<galleryPermission, photos, galleryLoading, photoLoads,
                selectedPhoto, galleryModalVisible, photoPrompt, photoDeletes>>

\* The photo modal and the deletePhoto calls.
photoModalVars == <<selectedPhoto, galleryModalVisible, photoPrompt, photoDeletes>>
cameraVars == <<cameraPermission, mediaPermission, isCapturing, capture>>
mapVars == <<mapMemories, selectedMemory, mapModalVisible, mapLoadPc,
            mapMessages>>

\* The state of the screens other than the Memories screen.
otherScreens == <<galleryVars, cameraVars, mapVars>>

vars == <<memoriesVars, alerts, galleryVars, cameraVars, mapVars>>

formVars == <<title, description, selectedEmoji, capturedPhoto>>

Absent == [kind |-> "absent", text |-> <<>>]
Corrupt == [kind |-> "corrupt", text |-> <<>>]
Blob(text) == [kind |-> "json", text |-> text]

\* Alert.alert messages.
MsgRequired == "Please enter a title for your memory"
MsgPermission == "Location permission is required to save memories with location."
MsgLocation == "Could not get current location"
MsgSaveFailed == "Failed to save memory"
MsgSuccess == "Memory saved successfully!"
MsgLibraryPermission == "Photo library permission is required to select images."
MsgCameraPermission == "Camera permission is required to take photos."
MsgPickFailed == "Failed to select image. Please try again."
MsgPhotoFailed == "Failed to take photo. Please try again."

PermissionResults == {"granted", "denied", "throws"}

NoLocation == [latitude |-> 0, longitude |-> 0, address |-> <<>>]

\* A createMemory call: where it is suspended, the state of the render it
\* closed over, and its locals.
CreateIdle ==
  [pc |-> "idle", title |-> <<>>, description |-> <<>>, selectedEmoji |-> "pin",
   capturedPhoto |-> Null, memories |-> <<>>, location |-> NoLocation,
   newMemory |-> <<>>, newMemories |-> <<>>, text |-> <<>>]

DelIdle ==
  [pc |-> "idle", id |-> "", memories |-> <<>>, newMemories |-> <<>>,
   text |-> <<>>]

PickerIdle == [pc |-> "idle", kind |-> "library"]

\* Alert.alert messages of the gallery.
MsgGalleryPermission == "We need access to your photo library to view photos."
MsgLoadPhotosFailed == "Failed to load photos. Please try again."

\* A loadPhotos call: where it is suspended and its locals (allPhotos, and
\* the page whose photos are being resolved).
PhotoLoad(pc) == [pc |-> pc, allPhotos |-> <<>>, assets |-> <<>>]

\* The gallery after its first render: the permission hook has not answered,
\* so the loadPhotos() of useEffect is suspended in requestPermission().
GalleryInit ==
  /\ galleryPermission = Null
  /\ photos = <<>>
  /\ galleryLoading = FALSE
  /\ photoLoads = <<PhotoLoad("permission")>>
  /\ selectedPhoto = <<>>
  /\ galleryModalVisible = FALSE
  /\ photoPrompt = ""
  /\ photoDeletes = <<>>

MsgPhotoDeleted == "Photo deleted successfully!"
MsgPhotoDeleteFailed == "Failed to delete photo."

\* Alert.alert messages of the camera screen.
MsgMediaPermission == "We need access to your photo library to save pictures."
MsgPhotoSaved == "Photo saved to gallery successfully!"
MsgTakeFailed == "Failed to take picture. Please try again."

\* The camera screen after its first render: neither permission hook has
\* answered, no takePicture call is in flight.
CameraInit ==
  /\ cameraPermission = Null
  /\ mediaPermission = Null
  /\ isCapturing = FALSE
  /\ capture = "idle"

\* MapScreen after its first render: the loadMemories() of useEffect is
\* suspended in getItem.
MapInit ==
  /\ mapMemories = <<>>
  /\ selectedMemory = Null
  /\ mapModalVisible = FALSE
  /\ mapLoadPc = "pending"
  /\ mapMessages = <<>>

\* useState initial values; the blob is what an earlier run left behind.
Init ==
  /\ now = 0
  /\ storage \in {Absent, Corrupt}
  /\ memories = <<>>
  /\ modalVisible = FALSE
  /\ loading = FALSE
  /\ title = <<>>
  /\ description = <<>>
  /\ selectedEmoji = "pin"
  /\ capturedPhoto = Null
  /\ loadPc = "pending"
  /\ create = CreateIdle
  /\ del = DelIdle
  /\ picker = PickerIdle
  /\ alerts = <<>>
  /\ GalleryInit
  /\ CameraInit
  /\ MapInit

\* A native dialog (an alert, the delete prompt, a permission request, the
\* image picker or the camera) is modal: no touch reaches the screen under it.
UIFree == alerts = <<>> /\ del.pc # "prompt" /\ picker.pc = "idle"

\* The clock advances.
Tick ==
  /\ now < MaxTime
  /\ now' = now + 1
  /\ UNCHANGED <<storage, memories, modalVisible, loading, formVars, loadPc,
                 create, del, picker, alerts>>
  /\ UNCHANGED otherScreens

\* A loadMemories whose catch block also alerts.
loadMemoriesAlerting(readOk) ==
  /\ loadPc = "pending"
  /\ IF readOk /\ storage.kind = "json"
     THEN /\ memories' = Sort(JSONparse(storage.text))
          /\ loadPc' = "done"
          /\ UNCHANGED alerts
     ELSE /\ memories' = memories
          /\ loadPc' = IF readOk /\ storage.kind = "absent"
                       THEN "done" ELSE "failed"
          /\ alerts' = IF readOk /\ storage.kind = "absent"
                       THEN alerts ELSE Append(alerts, "Failed to load memories")
  /\ UNCHANGED <<now, storage, modalVisible, loading, formVars, create, del,
                 picker>>
  /\ UNCHANGED otherScreens

\* loadMemories: getItem resolves (readOk) or rejects and the continuation
\* runs.  An absent item is null and skipped; a rejected read or a failed
\* parse ends in the catch block, which only logs (loadPc "failed").
loadMemories(readOk) ==
  /\ loadPc = "pending"
  /\ IF readOk /\ storage.kind = "json"
     THEN /\ memories' = Sort(JSONparse(storage.text))
          /\ loadPc' = "done"
     ELSE /\ memories' = memories
          /\ loadPc' = IF readOk /\ storage.kind = "absent"
                       THEN "done" ELSE "failed"
  /\ UNCHANGED <<now, storage, modalVisible, loading, formVars, create, del,
                 picker, alerts>>
  /\ UNCHANGED otherScreens

\* A saveMemories that publishes the collection before the write settles.
saveMemoriesOptimistic(newMemories, text, ok, shown) ==
  /\ memories' = Sort(newMemories)
  /\ IF ok
     THEN /\ storage' = Blob(text)
          /\ alerts' = alerts \o shown
     ELSE /\ UNCHANGED storage
          /\ alerts' = Append(alerts, MsgSaveFailed) \o shown

\* A saveMemories that adds its text to the item instead of replacing it.
saveMemoriesPatching(newMemories, text, ok, shown) ==
  IF ok
  THEN /\ storage' = Blob(IF storage.kind = "json"
                          THEN text \o storage.text ELSE text)
       /\ memories' = Sort(newMemories)
       /\ alerts' = alerts \o shown
  ELSE /\ UNCHANGED <<storage, memories>>
       /\ alerts' = Append(alerts, MsgSaveFailed) \o shown

\* saveMemories after its await: setItem(JSON.stringify(newMemories)) has
\* resolved (ok) or rejected; shown are the alerts the caller adds after it.
saveMemories(newMemories, text, ok, shown) ==
  IF ok
  THEN /\ storage' = Blob(text)
       /\ memories' = Sort(newMemories)
       /\ alerts' = alerts \o shown
  ELSE /\ UNCHANGED <<storage, memories>>
       /\ alerts' = Append(alerts, MsgSaveFailed) \o shown

\* ------------------------------------------------------------ the composer
OpenModal ==
  /\ UIFree /\ ~modalVisible
  /\ modalVisible' = TRUE
  /\ UNCHANGED <<now, storage, memories, loading, formVars, loadPc, create,
                 del, picker, alerts>>
  /\ UNCHANGED otherScreens

CloseModal ==
  /\ UIFree /\ modalVisible
  /\ modalVisible' = FALSE
  /\ UNCHANGED <<now, storage, memories, loading, formVars, loadPc, create,
                 del, picker, alerts>>
  /\ UNCHANGED otherScreens

SetTitle ==
  /\ UIFree /\ modalVisible
  /\ \E t \in TitleInputs : title' = t
  /\ UNCHANGED <<now, storage, memories, modalVisible, loading, description,
                 selectedEmoji, capturedPhoto, loadPc, create, del, picker,
                 alerts>>
  /\ UNCHANGED otherScreens

SetDescription ==
  /\ UIFree /\ modalVisible
  /\ \E d \in DescriptionInputs : description' = d
  /\ UNCHANGED <<now, storage, memories, modalVisible, loading, title,
                 selectedEmoji, capturedPhoto, loadPc, create, del, picker,
                 alerts>>
  /\ UNCHANGED otherScreens

SetSelectedEmoji ==
  /\ UIFree /\ modalVisible
  /\ \E e \in EMOJI_LIST : selectedEmoji' = e
  /\ UNCHANGED <<now, storage, memories, modalVisible, loading, title,
                 description, capturedPhoto, loadPc, create, del, picker,
                 alerts>>
  /\ UNCHANGED otherScreens

\* The remove-photo button is rendered while a draft photo is held.
RemovePhoto ==
  /\ UIFree /\ modalVisible /\ capturedPhoto # Null
  /\ capturedPhoto' = Null
  /\ UNCHANGED <<now, storage, memories, modalVisible, loading, title,
                 description, selectedEmoji, loadPc, create, del, picker,
                 alerts>>
  /\ UNCHANGED otherScreens

\* pickImage / takePhoto up to the permission request; their buttons are
\* rendered while no draft photo is held.
PickerTap ==
  /\ UIFree /\ modalVisible /\ capturedPhoto = Null
  /\ \E k \in {"library", "camera"} : picker' = [pc |-> "permission", kind |-> k]
  /\ UNCHANGED <<now, storage, memories, modalVisible, loading, formVars,
                 loadPc, create, del, alerts>>
  /\ UNCHANGED otherScreens

\* The permission request resolves or rejects.
PickerPermission(r) ==
  /\ picker.pc = "permission"
  /\ CASE r = "granted" ->
            /\ picker' = [picker EXCEPT !.pc = "launch"]
            /\ UNCHANGED alerts
       [] r = "denied" ->
            /\ picker' = PickerIdle
            /\ alerts' = Append(alerts, IF picker.kind = "library"
                                        THEN MsgLibraryPermission
                                        ELSE MsgCameraPermission)
       [] r = "throws" ->
            /\ picker' = PickerIdle
            /\ alerts' = Append(alerts, IF picker.kind = "library"
                                        THEN MsgPickFailed ELSE MsgPhotoFailed)
  /\ UNCHANGED <<now, storage, memories, modalVisible, loading, formVars,
                 loadPc, create, del>>
  /\ UNCHANGED otherScreens

\* What the launch settles with: the uri of the asset, a cancellation, or a
\* rejection.
PickerResults == PhotoUris \cup {"canceled", "throws"}

\* A pickImage / takePhoto that reads result.assets[0].uri without looking at
\* result.canceled: a cancellation ends in the catch block.
PickerResultUnchecked(result) ==
  /\ picker.pc = "launch"
  /\ picker' = PickerIdle
  /\ IF result \in PhotoUris
     THEN /\ capturedPhoto' = result
          /\ UNCHANGED alerts
     ELSE /\ alerts' = Append(alerts, IF picker.kind = "library"
                                      THEN MsgPickFailed ELSE MsgPhotoFailed)
          /\ UNCHANGED capturedPhoto
  /\ UNCHANGED <<now, storage, memories, modalVisible, loading, title,
                 description, selectedEmoji, loadPc, create, del>>
  /\ UNCHANGED otherScreens

\* launchImageLibraryAsync / launchCameraAsync resolves or rejects.
PickerResult(result) ==
  /\ picker.pc = "launch"
  /\ picker' = PickerIdle
  /\ CASE result \in PhotoUris ->
            /\ capturedPhoto' = result
            /\ UNCHANGED alerts
       [] result = "canceled" ->
            UNCHANGED <<capturedPhoto, alerts>>
       [] result = "throws" ->
            /\ alerts' = Append(alerts, IF picker.kind = "library"
                                        THEN MsgPickFailed ELSE MsgPhotoFailed)
            /\ UNCHANGED capturedPhoto
  /\ UNCHANGED <<now, storage, memories, modalVisible, loading, title,
                 description, selectedEmoji, loadPc, create, del>>
  /\ UNCHANGED otherScreens

\* createMemory up to its first await: the Save button is disabled while
\* loading; an empty trimmed title is rejected.
CreateTap(limit) ==
  /\ UIFree /\ modalVisible /\ ~loading
  /\ Len(memories) < limit
  /\ IF Trim(title) = <<>>
     THEN /\ alerts' = Append(alerts, MsgRequired)
          /\ UNCHANGED <<loading, create>>
     ELSE /\ loading' = TRUE
          /\ create' = [CreateIdle EXCEPT !.pc = "permission",
                          !.title = title, !.description = description,
                          !.selectedEmoji = selectedEmoji,
                          !.capturedPhoto = capturedPhoto,
                          !.memories = memories]
          /\ UNCHANGED alerts
  /\ UNCHANGED <<now, storage, memories, modalVisible, formVars, loadPc, del,
                 picker>>
  /\ UNCHANGED otherScreens

\* A createMemory that treats a null location like a finished save.
CreatePermissionClearsForm(r) ==
  /\ create.pc = "permission"
  /\ CASE r = "granted" ->
            /\ create' = [create EXCEPT !.pc = "position"]
            /\ UNCHANGED <<loading, alerts, modalVisible, formVars>>
       [] r = "denied" ->
            /\ create' = CreateIdle
            /\ loading' = FALSE
            /\ alerts' = Append(alerts, MsgPermission)
            /\ title' = <<>>
            /\ description' = <<>>
            /\ selectedEmoji' = "pin"
            /\ capturedPhoto' = Null
            /\ modalVisible' = FALSE
       [] r = "throws" ->
            /\ create' = CreateIdle
            /\ loading' = FALSE
            /\ alerts' = Append(alerts, MsgLocation)
            /\ UNCHANGED <<modalVisible, formVars>>
  /\ UNCHANGED <<now, storage, memories, loadPc, del, picker>>
  /\ UNCHANGED otherScreens

\* getCurrentLocation: requestForegroundPermissionsAsync resolves or rejects;
\* on null createMemory clears loading and returns.
CreatePermission(r) ==
  /\ create.pc = "permission"
  /\ CASE r = "granted" ->
            /\ create' = [create EXCEPT !.pc = "position"]
            /\ UNCHANGED <<loading, alerts>>
       [] r = "denied" ->
            /\ create' = CreateIdle
            /\ loading' = FALSE
            /\ alerts' = Append(alerts, MsgPermission)
       [] r = "throws" ->
            /\ create' = CreateIdle
            /\ loading' = FALSE
            /\ alerts' = Append(alerts, MsgLocation)
  /\ UNCHANGED <<now, storage, memories, modalVisible, formVars, loadPc, del,
                 picker>>
  /\ UNCHANGED otherScreens

\* A getCurrentLocation whose catch block only logs.
CreatePositionSilent(rejects) ==
  /\ create.pc = "position"
  /\ IF rejects
     THEN /\ create' = CreateIdle
          /\ loading' = FALSE
          /\ UNCHANGED alerts
     ELSE /\ \E c \in Coords :
               create' = [create EXCEPT !.pc = "geocode",
                            !.location = [latitude |-> c.latitude,
                                          longitude |-> c.longitude,
                                          address |-> <<>>]]
          /\ UNCHANGED <<loading, alerts>>
  /\ UNCHANGED <<now, storage, memories, modalVisible, formVars, loadPc, del,
                 picker>>
  /\ UNCHANGED otherScreens

\* getCurrentLocation: getCurrentPositionAsync resolves or rejects.
CreatePosition(rejects) ==
  /\ create.pc = "position"
  /\ IF rejects
     THEN /\ create' = CreateIdle
          /\ loading' = FALSE
          /\ alerts' = Append(alerts, MsgLocation)
     ELSE /\ \E c \in Coords :
               create' = [create EXCEPT !.pc = "geocode",
                            !.location = [latitude |-> c.latitude,
                                          longitude |-> c.longitude,
                                          address |-> <<>>]]
          /\ UNCHANGED <<loading, alerts>>
  /\ UNCHANGED <<now, storage, memories, modalVisible, formVars, loadPc, del,
                 picker>>
  /\ UNCHANGED otherScreens

\* An object literal that stores the description as typed.
NewMemoryUntrimmed(c, location, idTime, stampTime) ==
  [id |-> ToString(idTime),
   title |-> Trim(c.title),
   description |-> c.description,
   emoji |-> c.selectedEmoji,
   photoUri |-> IF c.capturedPhoto = Null THEN Undefined ELSE c.capturedPhoto,
   location |-> location,
   timestamp |-> stampTime]

\* createMemory's object literal; Date.now() is read for id and again for
\* timestamp.
NewMemory(c, location, idTime, stampTime) ==
  [id |-> ToString(idTime),
   title |-> Trim(c.title),
   description |-> Trim(c.description),
   emoji |-> c.selectedEmoji,
   photoUri |-> IF c.capturedPhoto = Null THEN Undefined ELSE c.capturedPhoto,
   location |-> location,
   timestamp |-> stampTime]

\* [...memories, newMemory]
UpdatedMemoriesAppended(newMemory, ms) == ms \o <<newMemory>>

\* [newMemory, ...memories]
UpdatedMemories(newMemory, ms) == <<newMemory>> \o ms

\* A getCurrentLocation whose reverse geocoding is not in a try of its own:
\* its rejection ends in the outer catch block.
CreateGeocodeFailing(rejects, address) ==
  /\ create.pc = "geocode"
  /\ IF rejects
     THEN /\ create' = CreateIdle
          /\ loading' = FALSE
          /\ alerts' = Append(alerts, MsgLocation)
          /\ UNCHANGED now
     ELSE /\ \E stamp \in {now, now + 1} :
               /\ stamp <= MaxTime
               /\ now' = stamp
               /\ LET location == [create.location EXCEPT !.address = address]
                      newMemory == NewMemory(create, location, now, stamp)
                      updatedMemories == UpdatedMemories(newMemory, create.memories)
                  IN  create' = [create EXCEPT !.pc = "saving",
                                   !.location = location,
                                   !.newMemory = newMemory,
                                   !.newMemories = updatedMemories,
                                   !.text = JSONstringify(updatedMemories)]
          /\ UNCHANGED <<loading, alerts>>
  /\ UNCHANGED <<storage, memories, modalVisible, formVars, loadPc, del, picker>>
  /\ UNCHANGED otherScreens

\* getCurrentLocation: reverseGeocodeAsync resolves, with an address or with
\* nothing to make one of, or rejects, which the inner catch block logs and
\* which leaves address ''; createMemory then builds the record and calls
\* saveMemories, which suspends in setItem.
CreateGeocode(rejects, address) ==
  /\ create.pc = "geocode"
  /\ \E stamp \in {now, now + 1} :
       /\ stamp <= MaxTime
       /\ now' = stamp
       /\ LET location == [create.location EXCEPT
                             !.address = IF rejects THEN <<>> ELSE address]
              newMemory == NewMemory(create, location, now, stamp)
              updatedMemories == UpdatedMemories(newMemory, create.memories)
          IN  create' = [create EXCEPT !.pc = "saving",
                           !.location = location,
                           !.newMemory = newMemory,
                           !.newMemories = updatedMemories,
                           !.text = JSONstringify(updatedMemories)]
  /\ UNCHANGED <<storage, memories, modalVisible, loading, formVars, loadPc,
                 del, picker, alerts>>
  /\ UNCHANGED otherScreens

\* saveMemories returns (it catches its own error), then createMemory resets
\* the form, closes the composer, reports success and clears loading.  The
\* catch block of createMemory is never entered: getCurrentLocation and
\* saveMemories both catch what their awaits reject with.
CreateSave(ok) ==
  /\ create.pc = "saving"
  /\ saveMemories(create.newMemories, create.text, ok, <<MsgSuccess>>)
  /\ title' = <<>>
  /\ description' = <<>>
  /\ selectedEmoji' = "pin"
  /\ capturedPhoto' = Null
  /\ modalVisible' = FALSE
  /\ loading' = FALSE
  /\ create' = CreateIdle
  /\ UNCHANGED <<now, loadPc, del, picker>>
  /\ UNCHANGED otherScreens

\* ------------------------------------------------------------ deleteMemory
\* The trash button of a listed memory opens the confirmation prompt.
DeleteTap ==
  /\ UIFree /\ ~modalVisible /\ del.pc = "idle"
  /\ \E i \in 1..Len(memories) :
       del' = [DelIdle EXCEPT !.pc = "prompt", !.id = memories[i].id,
                 !.memories = memories]
  /\ UNCHANGED <<now, storage, memories, modalVisible, loading, formVars,
                 loadPc, create, picker, alerts>>
  /\ UNCHANGED otherScreens

DeleteCancel ==
  /\ del.pc = "prompt" /\ alerts = <<>>
  /\ del' = DelIdle
  /\ UNCHANGED <<now, storage, memories, modalVisible, loading, formVars,
                 loadPc, create, picker, alerts>>
  /\ UNCHANGED otherScreens

\* An onPress of Delete that filters the collection of the latest render
\* instead of the one the prompt was opened with.
DeleteConfirmCurrent ==
  /\ del.pc = "prompt" /\ alerts = <<>>
  /\ LET updatedMemories == FilterOut(memories, del.id)
     IN  del' = [del EXCEPT !.pc = "saving", !.newMemories = updatedMemories,
                   !.text = JSONstringify(updatedMemories)]
  /\ UNCHANGED <<now, storage, memories, modalVisible, loading, formVars,
                 loadPc, create, picker, alerts>>
  /\ UNCHANGED otherScreens

\* onPress of Delete: filter, then saveMemories, which suspends in setItem.
DeleteConfirm ==
  /\ del.pc = "prompt" /\ alerts = <<>>
  /\ LET updatedMemories == FilterOut(del.memories, del.id)
     IN  del' = [del EXCEPT !.pc = "saving", !.newMemories = updatedMemories,
                   !.text = JSONstringify(updatedMemories)]
  /\ UNCHANGED <<now, storage, memories, modalVisible, loading, formVars,
                 loadPc, create, picker, alerts>>
  /\ UNCHANGED otherScreens

DeleteSave(ok) ==
  /\ del.pc = "saving"
  /\ saveMemories(del.newMemories, del.text, ok, <<>>)
  /\ del' = DelIdle
  /\ UNCHANGED <<now, modalVisible, loading, formVars, loadPc, create, picker>>
  /\ UNCHANGED otherScreens

\* The user dismisses the alert on top.
DismissAlert ==
  /\ alerts # <<>>
  /\ alerts' = Tail(alerts)
  /\ UNCHANGED <<now, storage, memories, modalVisible, loading, formVars,
                 loadPc, create, del, picker>>
  /\ UNCHANGED otherScreens

\* The app is closed and launched again: the screens are mounted afresh and
\* only the stored item and the clock survive.
Restart ==
  /\ memories' = <<>>
  /\ modalVisible' = FALSE
  /\ loading' = FALSE
  /\ title' = <<>>
  /\ description' = <<>>
  /\ selectedEmoji' = "pin"
  /\ capturedPhoto' = Null
  /\ loadPc' = "pending"
  /\ create' = CreateIdle
  /\ del' = DelIdle
  /\ picker' = PickerIdle
  /\ alerts' = <<>>
  /\ galleryPermission' = Null
  /\ photos' = <<>>
  /\ galleryLoading' = FALSE
  /\ photoLoads' = <<PhotoLoad("permission")>>
  /\ selectedPhoto' = <<>>
  /\ galleryModalVisible' = FALSE
  /\ photoPrompt' = ""
  /\ photoDeletes' = <<>>
  /\ cameraPermission' = Null
  /\ mediaPermission' = Null
  /\ isCapturing' = FALSE
  /\ capture' = "idle"
  /\ mapMemories' = <<>>
  /\ selectedMemory' = Null
  /\ mapModalVisible' = FALSE
  /\ mapLoadPc' = "pending"
  /\ mapMessages' = <<>>
  /\ UNCHANGED <<now, storage>>

\* ------------------------------------------------------------- the gallery
RemoveAt(seq, i) == SubSeq(seq, 1, i - 1) \o SubSeq(seq, i + 1, Len(seq))

\* MediaLibrary.usePermissions() reports the status the app already has.
GalleryPermissionStatus ==
  /\ galleryPermission = Null
  /\ \E r \in {"granted", "denied"} : galleryPermission' = r
  /\ UNCHANGED <<photos, galleryLoading, photoLoads, alerts>>
  /\ UNCHANGED photoModalVars
  /\ UNCHANGED <<memoriesVars, cameraVars, mapVars>>

\* The 'Grant Permission' button of the permission view: requestPermission.
GrantPermission ==
  /\ alerts = <<>> /\ galleryPermission # "granted"
  /\ \E r \in {"granted", "denied"} : galleryPermission' = r
  /\ UNCHANGED <<photos, galleryLoading, photoLoads, alerts>>
  /\ UNCHANGED photoModalVars
  /\ UNCHANGED <<memoriesVars, cameraVars, mapVars>>

\* The refresh button or the pull-to-refresh of the photo view, which is
\* rendered once permission is granted: loadPhotos up to its first await.
LoadPhotosRefresh(limit) ==
  /\ alerts = <<>> /\ galleryPermission = "granted"
  /\ ~galleryModalVisible /\ photoPrompt = ""
  /\ Len(photoLoads) < limit
  /\ galleryLoading' = TRUE
  /\ photoLoads' = Append(photoLoads, PhotoLoad("album"))
  /\ UNCHANGED <<galleryPermission, photos, alerts>>
  /\ UNCHANGED photoModalVars
  /\ UNCHANGED <<memoriesVars, cameraVars, mapVars>>

\* requestPermission() resolves or rejects; the await is outside the try.
LoadPhotosPermission(i, r) ==
  /\ i \in 1..Len(photoLoads) /\ photoLoads[i].pc = "permission"
  /\ CASE r = "granted" ->
            /\ galleryPermission' = "granted"
            /\ galleryLoading' = TRUE
            /\ photoLoads' = [photoLoads EXCEPT ![i].pc = "album"]
            /\ UNCHANGED alerts
       [] r = "denied" ->
            /\ galleryPermission' = "denied"
            /\ alerts' = Append(alerts, MsgGalleryPermission)
            /\ photoLoads' = RemoveAt(photoLoads, i)
            /\ UNCHANGED galleryLoading
       [] r = "throws" ->
            /\ photoLoads' = RemoveAt(photoLoads, i)
            /\ UNCHANGED <<galleryPermission, galleryLoading, alerts>>
  /\ UNCHANGED photos
  /\ UNCHANGED photoModalVars
  /\ UNCHANGED <<memoriesVars, cameraVars, mapVars>>

\* A loadPhotos whose album lookup is inside the outer try only.
LoadPhotosAlbumStrict(i, r) ==
  /\ i \in 1..Len(photoLoads) /\ photoLoads[i].pc = "album"
  /\ CASE r = "album" ->
            /\ photoLoads' = [photoLoads EXCEPT ![i].pc = "albumAssets"]
            /\ UNCHANGED <<galleryLoading, alerts>>
       [] r = "none" ->
            /\ photoLoads' = [photoLoads EXCEPT ![i].pc = "recent"]
            /\ UNCHANGED <<galleryLoading, alerts>>
       [] r = "throws" ->
            /\ photoLoads' = RemoveAt(photoLoads, i)
            /\ galleryLoading' = FALSE
            /\ alerts' = Append(alerts, MsgLoadPhotosFailed)
  /\ UNCHANGED <<galleryPermission, photos>>
  /\ UNCHANGED photoModalVars
  /\ UNCHANGED <<memoriesVars, cameraVars, mapVars>>

\* getAlbumAsync('Camera App Photos') resolves with the album or with null,
\* or rejects, which the inner catch block logs.
LoadPhotosAlbum(i, r) ==
  /\ i \in 1..Len(photoLoads) /\ photoLoads[i].pc = "album"
  /\ photoLoads' = [photoLoads EXCEPT
                      ![i].pc = IF r = "album" THEN "albumAssets" ELSE "recent"]
  /\ UNCHANGED <<galleryPermission, photos, galleryLoading, alerts>>
  /\ UNCHANGED photoModalVars
  /\ UNCHANGED <<memoriesVars, cameraVars, mapVars>>

\* getAssetsAsync({album, first: 50}) resolves with the page q or rejects
\* (inner catch block).
LoadPhotosAlbumAssets(i, rejects, q) ==
  /\ i \in 1..Len(photoLoads) /\ photoLoads[i].pc = "albumAssets"
  /\ photoLoads' = IF rejects
                   THEN [photoLoads EXCEPT ![i].pc = "recent"]
                   ELSE [photoLoads EXCEPT ![i].pc = "albumInfo", ![i].assets = q]
  /\ UNCHANGED <<galleryPermission, photos, galleryLoading, alerts>>
  /\ UNCHANGED photoModalVars
  /\ UNCHANGED <<memoriesVars, cameraVars, mapVars>>

\* Promise.all over the album page resolves: allPhotos = [...albumPhotos].
LoadPhotosAlbumInfo(i, outcomes) ==
  /\ i \in 1..Len(photoLoads) /\ photoLoads[i].pc = "albumInfo"
  /\ outcomes \in [1..Len(photoLoads[i].assets) -> InfoOutcomes]
  /\ photoLoads' = [photoLoads EXCEPT
                      ![i].pc = "recent",
                      ![i].allPhotos = PhotoInfos(photoLoads[i].assets, outcomes),
                      ![i].assets = <<>>]
  /\ UNCHANGED <<galleryPermission, photos, galleryLoading, alerts>>
  /\ UNCHANGED photoModalVars
  /\ UNCHANGED <<memoriesVars, cameraVars, mapVars>>

\* getAssetsAsync({first: 50}) resolves with the page q, or rejects: the
\* outer catch block alerts and finally clears loading.
LoadPhotosRecent(i, rejects, q) ==
  /\ i \in 1..Len(photoLoads) /\ photoLoads[i].pc = "recent"
  /\ IF rejects
     THEN /\ photoLoads' = RemoveAt(photoLoads, i)
          /\ galleryLoading' = FALSE
          /\ alerts' = Append(alerts, MsgLoadPhotosFailed)
     ELSE /\ photoLoads' = [photoLoads EXCEPT ![i].pc = "recentInfo",
                                              ![i].assets = q]
          /\ UNCHANGED <<galleryLoading, alerts>>
  /\ UNCHANGED <<galleryPermission, photos>>
  /\ UNCHANGED photoModalVars
  /\ UNCHANGED <<memoriesVars, cameraVars, mapVars>>

\* Promise.all over the roll page resolves; merge, sort, setPhotos, and
\* finally setLoading(false).
LoadPhotosRecentInfo(i, outcomes) ==
  /\ i \in 1..Len(photoLoads) /\ photoLoads[i].pc = "recentInfo"
  /\ outcomes \in [1..Len(photoLoads[i].assets) -> InfoOutcomes]
  /\ photos' = UniquePhotos(photoLoads[i].allPhotos,
                            PhotoInfos(photoLoads[i].assets, outcomes))
  /\ galleryLoading' = FALSE
  /\ photoLoads' = RemoveAt(photoLoads, i)
  /\ UNCHANGED <<galleryPermission, alerts>>
  /\ UNCHANGED photoModalVars
  /\ UNCHANGED <<memoriesVars, cameraVars, mapVars>>

\* openPhotoModal(item): a photo of the grid is pressed.
OpenPhotoModal ==
  /\ alerts = <<>> /\ galleryPermission = "granted"
  /\ ~galleryModalVisible /\ photoPrompt = ""
  /\ \E i \in 1..Len(photos) : selectedPhoto' = <<photos[i]>>
  /\ galleryModalVisible' = TRUE
  /\ UNCHANGED <<galleryPermission, photos, galleryLoading, photoLoads,
                 photoPrompt, photoDeletes, alerts>>
  /\ UNCHANGED <<memoriesVars, cameraVars, mapVars>>

\* Close, the overlay or onRequestClose of the photo modal.
ClosePhotoModal ==
  /\ alerts = <<>> /\ photoPrompt = ""
  /\ galleryModalVisible
  /\ galleryModalVisible' = FALSE
  /\ UNCHANGED <<galleryPermission, photos, galleryLoading, photoLoads,
                 selectedPhoto, photoPrompt, photoDeletes, alerts>>
  /\ UNCHANGED <<memoriesVars, cameraVars, mapVars>>

\* confirmDelete(selectedPhoto): the Delete button of the photo modal, which
\* is rendered while a photo is selected, opens the prompt.
ConfirmDelete ==
  /\ alerts = <<>> /\ photoPrompt = ""
  /\ galleryModalVisible /\ selectedPhoto # <<>>
  /\ photoPrompt' = selectedPhoto[1].id
  /\ UNCHANGED <<galleryPermission, photos, galleryLoading, photoLoads,
                 selectedPhoto, galleryModalVisible, photoDeletes, alerts>>
  /\ UNCHANGED <<memoriesVars, cameraVars, mapVars>>

\* Cancel of the prompt.
DeletePhotoCancel ==
  /\ alerts = <<>> /\ photoPrompt # ""
  /\ photoPrompt' = ""
  /\ UNCHANGED <<galleryPermission, photos, galleryLoading, photoLoads,
                 selectedPhoto, galleryModalVisible, photoDeletes, alerts>>
  /\ UNCHANGED <<memoriesVars, cameraVars, mapVars>>

\* Delete of the prompt: deletePhoto(photo.id) up to its await.
DeletePhotoConfirm ==
  /\ alerts = <<>> /\ photoPrompt # ""
  /\ Len(photoDeletes) < MaxPhotoDeletes
  /\ photoDeletes' = Append(photoDeletes, photoPrompt)
  /\ photoPrompt' = ""
  /\ UNCHANGED <<galleryPermission, photos, galleryLoading, photoLoads,
                 selectedPhoto, galleryModalVisible, alerts>>
  /\ UNCHANGED <<memoriesVars, cameraVars, mapVars>>

\* prevPhotos.filter(photo => photo.id !== photoId)
FilterOutPhoto(ps, photoId) == SelectSeq(ps, LAMBDA photo : photo.id # photoId)

\* What deleteAssetsAsync settles with: true, false, or a rejection.
DeleteResults == {"deleted", "refused", "throws"}

\* A deletePhoto that does not look at what deleteAssetsAsync resolved with.
DeletePhotoResultUnchecked(i, result) ==
  /\ i \in 1..Len(photoDeletes)
  /\ photoDeletes' = RemoveAt(photoDeletes, i)
  /\ IF result \in {"deleted", "refused"}
     THEN /\ photos' = FilterOutPhoto(photos, photoDeletes[i])
          /\ galleryModalVisible' = FALSE
          /\ alerts' = Append(alerts, MsgPhotoDeleted)
     ELSE /\ alerts' = Append(alerts, MsgPhotoDeleteFailed)
          /\ UNCHANGED <<photos, galleryModalVisible>>
  /\ UNCHANGED <<galleryPermission, galleryLoading, photoLoads, selectedPhoto,
                 photoPrompt>>
  /\ UNCHANGED <<memoriesVars, cameraVars, mapVars>>

\* deletePhoto after its await: deleteAssetsAsync([photoId]) has resolved
\* with true or false, or rejected.
DeletePhotoResult(i, result) ==
  /\ i \in 1..Len(photoDeletes)
  /\ photoDeletes' = RemoveAt(photoDeletes, i)
  /\ IF result = "deleted"
     THEN /\ photos' = FilterOutPhoto(photos, photoDeletes[i])
          /\ galleryModalVisible' = FALSE
          /\ alerts' = Append(alerts, MsgPhotoDeleted)
     ELSE /\ alerts' = Append(alerts, MsgPhotoDeleteFailed)
          /\ UNCHANGED <<photos, galleryModalVisible>>
  /\ UNCHANGED <<galleryPermission, galleryLoading, photoLoads, selectedPhoto,
                 photoPrompt>>
  /\ UNCHANGED <<memoriesVars, cameraVars, mapVars>>

AllInfoOutcomes == UNION {[1..n -> InfoOutcomes] : n \in 0..PageSize}

\* Asset infos that resolve with a local uri.
PhotoOutcomes == {o \in AllInfoOutcomes : \A k \in DOMAIN o : o[k] = "localUri"}

\* Pages of at most the asset "a".
OverlapPages == {q \in QueryResults : \A k \in 1..Len(q) : q[k].id = "a"}

\* The gallery screen.
GalleryNext ==
  \/ GalleryPermissionStatus
  \/ GrantPermission
  \/ LoadPhotosRefresh(MaxPhotoLoads)
  \/ \E i \in 1..MaxPhotoLoads, r \in PermissionResults : LoadPhotosPermission(i, r)
  \/ \E i \in 1..MaxPhotoLoads, r \in {"album", "none", "throws"} :
       LoadPhotosAlbum(i, r)
  \/ \E i \in 1..MaxPhotoLoads, rejects \in BOOLEAN, q \in QueryResults :
       LoadPhotosAlbumAssets(i, rejects, q)
  \/ \E i \in 1..MaxPhotoLoads, outcomes \in AllInfoOutcomes :
       LoadPhotosAlbumInfo(i, outcomes)
  \/ \E i \in 1..MaxPhotoLoads, rejects \in BOOLEAN, q \in QueryResults :
       LoadPhotosRecent(i, rejects, q)
  \/ \E i \in 1..MaxPhotoLoads, outcomes \in AllInfoOutcomes :
       LoadPhotosRecentInfo(i, outcomes)
  \/ DismissAlert

GallerySpec == Init /\ [][GalleryNext]_vars

\* The photo modal and deletePhoto.
PhotoModalNext ==
  \/ OpenPhotoModal
  \/ ClosePhotoModal
  \/ ConfirmDelete
  \/ DeletePhotoCancel
  \/ DeletePhotoConfirm
  \/ \E i \in 1..MaxPhotoDeletes, result \in DeleteResults :
       DeletePhotoResult(i, result)

\* The gallery with its photo modal; asset infos resolve with a local uri.
PhotoNext ==
  \/ GalleryPermissionStatus
  \/ LoadPhotosRefresh(MaxPhotoLoads)
  \/ \E i \in 1..MaxPhotoLoads :
       \/ \E r \in PermissionResults : LoadPhotosPermission(i, r)
       \/ \E r \in {"album", "none", "throws"} : LoadPhotosAlbum(i, r)
       \/ \E rejects \in BOOLEAN, q \in QueryResults :
            LoadPhotosAlbumAssets(i, rejects, q)
       \/ \E rejects \in BOOLEAN, q \in QueryResults :
            LoadPhotosRecent(i, rejects, q)
       \/ \E outcomes \in PhotoOutcomes : LoadPhotosAlbumInfo(i, outcomes)
       \/ \E outcomes \in PhotoOutcomes : LoadPhotosRecentInfo(i, outcomes)
  \/ PhotoModalNext
  \/ DismissAlert

PhotoSpec == Init /\ [][PhotoNext]_vars

\* The gallery with loadPhotos calls that overlap; pages of at most the
\* asset "a".
OverlapNext ==
  \/ GalleryPermissionStatus
  \/ LoadPhotosRefresh(MaxOverlappingLoads)
  \/ \E i \in 1..MaxOverlappingLoads :
       \/ \E r \in PermissionResults : LoadPhotosPermission(i, r)
       \/ \E r \in {"album", "none", "throws"} : LoadPhotosAlbum(i, r)
       \/ \E rejects \in BOOLEAN, q \in OverlapPages :
            LoadPhotosAlbumAssets(i, rejects, q)
       \/ \E rejects \in BOOLEAN, q \in OverlapPages :
            LoadPhotosRecent(i, rejects, q)
       \/ \E outcomes \in PhotoOutcomes : LoadPhotosAlbumInfo(i, outcomes)
       \/ \E outcomes \in PhotoOutcomes : LoadPhotosRecentInfo(i, outcomes)
  \/ DismissAlert

OverlapSpec == Init /\ [][OverlapNext]_vars

\* ------------------------------------------------------ the camera screen
\* useCameraPermissions() reports the status the app already has.
CameraPermissionStatus ==
  /\ cameraPermission = Null
  /\ \E r \in {"granted", "denied"} : cameraPermission' = r
  /\ UNCHANGED <<mediaPermission, isCapturing, capture, alerts>>
  /\ UNCHANGED <<memoriesVars, galleryVars, mapVars>>

\* The 'grant permission' button, shown while the camera is not granted.
GrantCameraPermission ==
  /\ alerts = <<>> /\ cameraPermission = "denied"
  /\ \E r \in {"granted", "denied"} : cameraPermission' = r
  /\ UNCHANGED <<mediaPermission, isCapturing, capture, alerts>>
  /\ UNCHANGED <<memoriesVars, galleryVars, mapVars>>

\* MediaLibrary.usePermissions() reports the status the app already has.
MediaPermissionStatus ==
  /\ mediaPermission = Null
  /\ \E r \in {"granted", "denied"} : mediaPermission' = r
  /\ UNCHANGED <<cameraPermission, isCapturing, capture, alerts>>
  /\ UNCHANGED <<memoriesVars, galleryVars, mapVars>>

\* A capture button that is never disabled, on a takePicture without its
\* isCapturing test.
TakePictureTapUnguarded ==
  /\ alerts = <<>> /\ cameraPermission = "granted"
  /\ isCapturing' = TRUE
  /\ capture' = IF mediaPermission = "granted" THEN "shoot" ELSE "permission"
  /\ UNCHANGED <<cameraPermission, mediaPermission, alerts>>
  /\ UNCHANGED <<memoriesVars, galleryVars, mapVars>>

\* The capture button (disabled={isCapturing}) and takePicture up to its
\* first await: it returns at once if isCapturing, else sets it.
TakePictureTap ==
  /\ alerts = <<>> /\ cameraPermission = "granted"
  /\ ~isCapturing
  /\ isCapturing' = TRUE
  /\ capture' = IF mediaPermission = "granted" THEN "shoot" ELSE "permission"
  /\ UNCHANGED <<cameraPermission, mediaPermission, alerts>>
  /\ UNCHANGED <<memoriesVars, galleryVars, mapVars>>

\* requestMediaPermission() resolves or rejects.
TakePicturePermission(r) ==
  /\ capture = "permission"
  /\ CASE r = "granted" ->
            /\ mediaPermission' = "granted"
            /\ capture' = "shoot"
            /\ UNCHANGED <<isCapturing, alerts>>
       [] r = "denied" ->
            /\ mediaPermission' = "denied"
            /\ alerts' = Append(alerts, MsgMediaPermission)
            /\ capture' = "idle"
            /\ isCapturing' = FALSE
       [] r = "throws" ->
            /\ alerts' = Append(alerts, MsgTakeFailed)
            /\ capture' = "idle"
            /\ isCapturing' = FALSE
            /\ UNCHANGED mediaPermission
  /\ UNCHANGED cameraPermission
  /\ UNCHANGED <<memoriesVars, galleryVars, mapVars>>

\* What takePictureAsync settles with.
ShootResults == {"photo", "nothing", "throws"}

\* takePictureAsync resolves with a photo or with nothing, or rejects.
TakePictureShoot(result) ==
  /\ capture = "shoot"
  /\ CASE result = "photo" ->
            /\ capture' = "asset"
            /\ UNCHANGED <<isCapturing, alerts>>
       [] result = "nothing" ->
            /\ capture' = "idle"
            /\ isCapturing' = FALSE
            /\ UNCHANGED alerts
       [] result = "throws" ->
            /\ capture' = "idle"
            /\ isCapturing' = FALSE
            /\ alerts' = Append(alerts, MsgTakeFailed)
  /\ UNCHANGED <<cameraPermission, mediaPermission>>
  /\ UNCHANGED <<memoriesVars, galleryVars, mapVars>>

\* createAssetAsync(photo.uri) resolves or rejects.
TakePictureAsset(rejects) ==
  /\ capture = "asset"
  /\ IF rejects
     THEN /\ capture' = "idle"
          /\ isCapturing' = FALSE
          /\ alerts' = Append(alerts, MsgTakeFailed)
     ELSE /\ capture' = "album"
          /\ UNCHANGED <<isCapturing, alerts>>
  /\ UNCHANGED <<cameraPermission, mediaPermission>>
  /\ UNCHANGED <<memoriesVars, galleryVars, mapVars>>

\* getAlbumAsync resolves, and createAlbumAsync or addAssetsToAlbumAsync is
\* awaited, or it rejects: the inner catch block logs and success is shown.
TakePictureAlbum(rejects) ==
  /\ capture = "album"
  /\ IF rejects
     THEN /\ capture' = "idle"
          /\ isCapturing' = FALSE
          /\ alerts' = Append(alerts, MsgPhotoSaved)
     ELSE /\ capture' = "albumStore"
          /\ UNCHANGED <<isCapturing, alerts>>
  /\ UNCHANGED <<cameraPermission, mediaPermission>>
  /\ UNCHANGED <<memoriesVars, galleryVars, mapVars>>

\* createAlbumAsync / addAssetsToAlbumAsync resolves or rejects (inner catch
\* block): success is shown either way, and finally clears isCapturing.
TakePictureAlbumStore(rejects) ==
  /\ capture = "albumStore"
  /\ capture' = "idle"
  /\ isCapturing' = FALSE
  /\ alerts' = Append(alerts, MsgPhotoSaved)
  /\ UNCHANGED <<cameraPermission, mediaPermission>>
  /\ UNCHANGED <<memoriesVars, galleryVars, mapVars>>

\* The camera screen.
CameraNext ==
  \/ CameraPermissionStatus
  \/ GrantCameraPermission
  \/ MediaPermissionStatus
  \/ TakePictureTap
  \/ \E r \in PermissionResults : TakePicturePermission(r)
  \/ \E result \in ShootResults : TakePictureShoot(result)
  \/ \E rejects \in BOOLEAN : TakePictureAsset(rejects)
  \/ \E rejects \in BOOLEAN : TakePictureAlbum(rejects)
  \/ \E rejects \in BOOLEAN : TakePictureAlbumStore(rejects)
  \/ DismissAlert

\* ---------------------------------------------------------------- MapScreen
\* The memoryId of a WebView message: an id of some record, or another string.
MessageIds == {ToString(t) : t \in 0..MaxTime} \cup {"none"}

\* memories.find(m => m.id === id) finds a record, or returns undefined.
Finds(ms, id) == \E i \in 1..Len(ms) : ms[i].id = id

\* The record it finds: the first match.
Find(ms, id) ==
  ms[CHOOSE i \in 1..Len(ms) :
       ms[i].id = id /\ \A j \in 1..(i - 1) : ms[j].id # id]

\* MapScreen.loadMemories: as loadMemories of the Memories screen.
MapLoadMemories(readOk) ==
  /\ mapLoadPc = "pending"
  /\ IF readOk /\ storage.kind = "json"
     THEN /\ mapMemories' = Sort(JSONparse(storage.text))
          /\ mapLoadPc' = "done"
     ELSE /\ mapMemories' = mapMemories
          /\ mapLoadPc' = IF readOk /\ storage.kind = "absent"
                          THEN "done" ELSE "failed"
  /\ UNCHANGED <<selectedMemory, mapModalVisible, mapMessages, alerts>>
  /\ UNCHANGED <<memoriesVars, galleryVars, cameraVars>>

\* openMemoryDetails(memory)
openMemoryDetails(memory) ==
  /\ selectedMemory' = memory
  /\ mapModalVisible' = TRUE

\* The page in the WebView posts {type: 'openMemory', memoryId}; the
\* message reaches onMessage later, and onMessage takes whatever id it
\* carries.
MapPostMessage(memoryId) ==
  /\ Len(mapMessages) < MaxMessages
  /\ mapMessages' = Append(mapMessages, memoryId)
  /\ UNCHANGED <<mapMemories, selectedMemory, mapModalVisible, mapLoadPc, alerts>>
  /\ UNCHANGED <<memoriesVars, galleryVars, cameraVars>>

\* An onMessage that closes the detail view when the id is not found.
MapOnMessageClosing ==
  /\ mapMessages # <<>>
  /\ mapMessages' = Tail(mapMessages)
  /\ IF Finds(mapMemories, Head(mapMessages))
     THEN openMemoryDetails(Find(mapMemories, Head(mapMessages)))
     ELSE /\ mapModalVisible' = FALSE
          /\ UNCHANGED selectedMemory
  /\ UNCHANGED <<mapMemories, mapLoadPc, alerts>>
  /\ UNCHANGED <<memoriesVars, galleryVars, cameraVars>>

\* WebView onMessage with {type: 'openMemory', memoryId}.
MapOnMessage ==
  /\ mapMessages # <<>>
  /\ mapMessages' = Tail(mapMessages)
  /\ IF Finds(mapMemories, Head(mapMessages))
     THEN openMemoryDetails(Find(mapMemories, Head(mapMessages)))
     ELSE UNCHANGED <<selectedMemory, mapModalVisible>>
  /\ UNCHANGED <<mapMemories, mapLoadPc, alerts>>
  /\ UNCHANGED <<memoriesVars, galleryVars, cameraVars>>

\* A row of the list view is pressed.
MapListPress ==
  /\ alerts = <<>> /\ ~mapModalVisible
  /\ \E i \in 1..Len(mapMemories) : openMemoryDetails(mapMemories[i])
  /\ UNCHANGED <<mapMemories, mapLoadPc, mapMessages, alerts>>
  /\ UNCHANGED <<memoriesVars, galleryVars, cameraVars>>

\* Close of the detail modal, or onRequestClose.
MapCloseModal ==
  /\ alerts = <<>> /\ mapModalVisible
  /\ mapModalVisible' = FALSE
  /\ UNCHANGED <<mapMemories, selectedMemory, mapLoadPc, mapMessages, alerts>>
  /\ UNCHANGED <<memoriesVars, galleryVars, cameraVars>>

Next ==
  \/ Tick
  \/ \E readOk \in BOOLEAN : loadMemories(readOk)
  \/ OpenModal
  \/ CloseModal
  \/ SetTitle
  \/ SetDescription
  \/ SetSelectedEmoji
  \/ RemovePhoto
  \/ PickerTap
  \/ \E r \in PermissionResults : PickerPermission(r)
  \/ \E result \in PickerResults : PickerResult(result)
  \/ CreateTap(MaxMemories)
  \/ \E r \in PermissionResults : CreatePermission(r)
  \/ \E rejects \in BOOLEAN : CreatePosition(rejects)
  \/ \E rejects \in BOOLEAN, address \in Addresses :
       CreateGeocode(rejects, address)
  \/ \E ok \in BOOLEAN : CreateSave(ok)
  \/ DeleteTap
  \/ DeleteCancel
  \/ DeleteConfirm
  \/ \E ok \in BOOLEAN : DeleteSave(ok)
  \/ DismissAlert
  \/ Restart
  \/ GalleryNext
  \/ PhotoModalNext
  \/ CameraNext
  \/ \E readOk \in BOOLEAN : MapLoadMemories(readOk)
  \/ \E memoryId \in MessageIds : MapPostMessage(memoryId)
  \/ MapOnMessage
  \/ MapListPress
  \/ MapCloseModal

Spec == Init /\ [][Next]_vars

\* The Record Store: the form keeps its default emoji, description and photo.
StoreNext ==
  \/ Tick
  \/ \E readOk \in BOOLEAN : loadMemories(readOk)
  \/ OpenModal
  \/ CloseModal
  \/ SetTitle
  \/ CreateTap(MaxMemories)
  \/ \E r \in PermissionResults : CreatePermission(r)
  \/ \E rejects \in BOOLEAN : CreatePosition(rejects)
  \/ \E rejects \in BOOLEAN, address \in Addresses :
       CreateGeocode(rejects, address)
  \/ \E ok \in BOOLEAN : CreateSave(ok)
  \/ DeleteTap
  \/ DeleteCancel
  \/ DeleteConfirm
  \/ \E ok \in BOOLEAN : DeleteSave(ok)
  \/ DismissAlert
  \/ Restart

StoreSpec == Init /\ [][StoreNext]_vars

\* The two in-flight flags: the camera screen, and the composer of the
\* Memories screen with its title only.
InFlightNext ==
  \/ CameraNext
  \/ Tick
  \/ \E readOk \in BOOLEAN : loadMemories(readOk)
  \/ OpenModal
  \/ CloseModal
  \/ SetTitle
  \/ CreateTap(ComposerMaxMemories)
  \/ \E r \in PermissionResults : CreatePermission(r)
  \/ \E rejects \in BOOLEAN : CreatePosition(rejects)
  \/ \E rejects \in BOOLEAN, address \in Addresses :
       CreateGeocode(rejects, address)
  \/ \E ok \in BOOLEAN : CreateSave(ok)

InFlightSpec == Init /\ [][InFlightNext]_vars

\* MapScreen next to the Record Store, within one launch of the app: the
\* Memories screen appends and removes while the map screen is mounted.
MapNext ==
  \/ Tick
  \/ \E readOk \in BOOLEAN : loadMemories(readOk)
  \/ OpenModal
  \/ CloseModal
  \/ SetTitle
  \/ CreateTap(MaxMemories)
  \/ \E r \in PermissionResults : CreatePermission(r)
  \/ \E rejects \in BOOLEAN : CreatePosition(rejects)
  \/ \E rejects \in BOOLEAN, address \in Addresses :
       CreateGeocode(rejects, address)
  \/ \E ok \in BOOLEAN : CreateSave(ok)
  \/ DeleteTap
  \/ DeleteCancel
  \/ DeleteConfirm
  \/ \E ok \in BOOLEAN : DeleteSave(ok)
  \/ DismissAlert
  \/ \E readOk \in BOOLEAN : MapLoadMemories(readOk)
  \/ \E memoryId \in MessageIds : MapPostMessage(memoryId)
  \/ MapOnMessage
  \/ MapListPress
  \/ MapCloseModal

MapSpec == Init /\ [][MapNext]_vars

\* The Memory Composer: one launch of the app, every form field edited.
\* The three flows that carry an in-flight flag, side by side: createMemory,
\* takePicture and loadPhotos.  What the flows do not branch on is kept
\* small: pages of at most the asset "a", and asset infos that resolve with a
\* local uri or reject.
FlowPages == {q \in QueryResults : \A k \in 1..Len(q) : q[k].id = "a"}
FlowOutcomes ==
  {o \in AllInfoOutcomes : \A k \in DOMAIN o : o[k] \in {"localUri", "throws"}}

\* The awaits of a createMemory call settling.
CreateSettle ==
  \/ \E r \in PermissionResults : CreatePermission(r)
  \/ \E rejects \in BOOLEAN : CreatePosition(rejects)
  \/ \E rejects \in BOOLEAN, address \in Addresses :
       CreateGeocode(rejects, address)
  \/ \E ok \in BOOLEAN : CreateSave(ok)

\* The awaits of a takePicture call settling.
CaptureSettle ==
  \/ \E r \in PermissionResults : TakePicturePermission(r)
  \/ \E result \in ShootResults : TakePictureShoot(result)
  \/ \E rejects \in BOOLEAN : TakePictureAsset(rejects)
  \/ \E rejects \in BOOLEAN : TakePictureAlbum(rejects)
  \/ \E rejects \in BOOLEAN : TakePictureAlbumStore(rejects)

\* The awaits of the i-th loadPhotos call settling.
LoadSettle(i) ==
  \/ \E r \in PermissionResults : LoadPhotosPermission(i, r)
  \/ \E r \in {"album", "none", "throws"} : LoadPhotosAlbum(i, r)
  \/ \E rejects \in BOOLEAN, q \in FlowPages : LoadPhotosAlbumAssets(i, rejects, q)
  \/ \E outcomes \in FlowOutcomes : LoadPhotosAlbumInfo(i, outcomes)
  \/ \E rejects \in BOOLEAN, q \in FlowPages : LoadPhotosRecent(i, rejects, q)
  \/ \E outcomes \in FlowOutcomes : LoadPhotosRecentInfo(i, outcomes)

FlowsNext ==
  \/ OpenModal
  \/ SetTitle
  \/ CreateTap(ComposerMaxMemories)
  \/ CreateSettle
  \/ CameraPermissionStatus
  \/ MediaPermissionStatus
  \/ TakePictureTap
  \/ CaptureSettle
  \/ GalleryPermissionStatus
  \/ LoadPhotosRefresh(MaxPhotoLoads)
  \/ \E i \in 1..MaxPhotoLoads : LoadSettle(i)
  \/ DismissAlert

\* Every promise a flow awaits settles: a flow that can take its next step
\* takes it.
FlowsFairness ==
  /\ WF_vars(CreateSettle)
  /\ WF_vars(CaptureSettle)
  /\ \A i \in 1..MaxPhotoLoads : WF_vars(LoadSettle(i))

FlowsSpec == Init /\ [][FlowsNext]_vars /\ FlowsFairness

ComposerNext ==
  \/ Tick
  \/ \E readOk \in BOOLEAN : loadMemories(readOk)
  \/ OpenModal
  \/ CloseModal
  \/ SetTitle
  \/ SetDescription
  \/ SetSelectedEmoji
  \/ RemovePhoto
  \/ PickerTap
  \/ \E r \in PermissionResults : PickerPermission(r)
  \/ \E result \in PickerResults : PickerResult(result)
  \/ CreateTap(ComposerMaxMemories)
  \/ \E r \in PermissionResults : CreatePermission(r)
  \/ \E rejects \in BOOLEAN : CreatePosition(rejects)
  \/ \E rejects \in BOOLEAN, address \in Addresses :
       CreateGeocode(rejects, address)
  \/ \E ok \in BOOLEAN : CreateSave(ok)
  \/ DeleteTap
  \/ DeleteCancel
  \/ DeleteConfirm
  \/ \E ok \in BOOLEAN : DeleteSave(ok)
  \/ DismissAlert

ComposerSpec == Init /\ [][ComposerNext]_vars

\* ----------------------------------------------------------------- claims
\* The records a blob holds: those JSON.parse returns, none when the item is
\* absent or does not parse.
Persisted == IF storage.kind = "json" THEN JSONparse(storage.text) ELSE <<>>

Keys == {KeyOrder[i] : i \in DOMAIN KeyOrder}

\* Two objects that read the same under every key.
SameFields(a, b) == \A k \in Keys : Get(a, k) = Get(b, k)

SameRecords(xs, ys) ==
  /\ Len(xs) = Len(ys)
  /\ \A i \in 1..Len(xs) : SameFields(xs[i], ys[i])

\* What a successful loadMemories yields from a blob.
Reloaded(s) == IF s.kind = "json" THEN Sort(JSONparse(s.text)) ELSE <<>>

SortedDesc(ms) ==
  \A i, j \in 1..Len(ms) : i < j => ms[i].timestamp >= ms[j].timestamp

IsStableSortOf(out, in) ==
  /\ Len(out) = Len(in)
  /\ SortedDesc(out)
  /\ \E p \in Permutations(1..Len(in)) :
       /\ \A i \in 1..Len(out) : SameFields(out[i], in[p[i]])
       /\ \A i, j \in 1..Len(out) :
            (i < j /\ out[i].timestamp = out[j].timestamp) => p[i] < p[j]

Without(ms, id) == SelectSeq(ms, LAMBDA m : m.id # id)

UniqueIds(ms) ==
  \A i, j \in 1..Len(ms) : ms[i].id = ms[j].id => i = j

\* C3: in every state no two records of the collection, in memory or
\* persisted, have the same id.
C3_UniqueIds == UniqueIds(memories) /\ UniqueIds(Persisted)


\* The records as a set of readings, whatever their order and their keys.
View(o) == [k \in Keys |-> Get(o, k)]
RecordSet(ms) == {View(ms[i]) : i \in 1..Len(ms)}

\* The step shows this alert, and nothing before it.
Shows(msg) == Len(alerts') > Len(alerts) /\ alerts'[Len(alerts) + 1] = msg

\* C4 as stated, from the completion of the initial loadMemories on: the
\* in-memory collection and the persisted one hold the same set of records.
C4_NeverDiffer == loadPc # "pending" => RecordSet(memories) = RecordSet(Persisted)

\* C4 amended: a failed write leaves the in-memory collection and the blob
\* unchanged and shows the failure alert, and after a successful write both
\* hold the same set of records, so that no save makes them differ.
C4_SaveNeverMakesDiffer ==
  [][/\ (CreateSave(FALSE) \/ DeleteSave(FALSE)) =>
          /\ memories' = memories
          /\ storage' = storage
          /\ Shows(MsgSaveFailed)
     /\ (CreateSave(TRUE) \/ DeleteSave(TRUE)) =>
          RecordSet(memories') = RecordSet(Persisted')]_vars

\* A write has failed with a record in the store: the failure alert is up
\* and memory and blob still hold that record.
C4_Witness ==
  /\ alerts # <<>> /\ alerts[1] = MsgSaveFailed
  /\ Len(memories) = 1
  /\ RecordSet(memories) = RecordSet(Persisted)

\* C5: a loadMemories whose read is rejected, or whose item does not parse,
\* completes in its catch block: the in-memory collection keeps its value,
\* nothing is shown to the user and nothing is written.
C5_LoadFailsSoft ==
  [][(\E readOk \in BOOLEAN :
        /\ loadMemories(readOk)
        /\ (~readOk \/ storage.kind = "corrupt")) =>
       /\ loadPc' = "failed"
       /\ memories' = memories
       /\ alerts' = alerts
       /\ storage' = storage]_vars

\* A load failed over a blob that holds a record: memory is still empty.
C5_Witness ==
  /\ loadPc = "failed" /\ memories = <<>>
  /\ storage.kind = "json" /\ Len(storage.text) = 1

IsBlank(str) == \A i \in 1..Len(str) : str[i] = " "

\* C6: the step that answers a Save tap with the 'Required' alert changes
\* neither the blob, the in-memory collection, the form nor the composer and
\* starts no location request; no createMemory call gets past a blank title;
\* and every record, in memory or persisted, has a non-blank title.
C6_BlankTitleRejected ==
  /\ [][/\ Shows(MsgRequired) =>
             /\ IsBlank(title)
             /\ UNCHANGED <<storage, memories, formVars, modalVisible, loading,
                            create>>
             /\ alerts' = Append(alerts, MsgRequired)
        /\ (create.pc = "idle" /\ create'.pc # "idle") => ~IsBlank(title)]_vars
  /\ [](\A i \in 1..Len(memories) : ~IsBlank(memories[i].title))
  /\ [](\A i \in 1..Len(Persisted) : ~IsBlank(Persisted[i].title))

\* A whitespace-only title was rejected: the alert is up, the composer open.
C6_Witness ==
  /\ alerts = <<MsgRequired>> /\ title = <<" ">>
  /\ modalVisible /\ create.pc = "idle" /\ ~loading

\* C7: when the permission request of a createMemory call is denied, the
\* step shows the denial alert and only it, clears loading, ends the call
\* and changes neither the store, the form nor the composer.
C7_DenialKeepsForm ==
  [][CreatePermission("denied") =>
       /\ alerts' = Append(alerts, MsgPermission)
       /\ loading' = FALSE
       /\ create'.pc = "idle"
       /\ UNCHANGED <<storage, memories, formVars, modalVisible>>]_vars

\* A denial left a filled form in the open composer.
C7_Witness ==
  /\ alerts = <<MsgPermission>> /\ ~loading /\ create.pc = "idle"
  /\ modalVisible
  /\ title = <<" ", "a", " ">> /\ description = <<" ", "d">>
  /\ selectedEmoji = "coffee" /\ capturedPhoto = "file1"

\* C8: a createMemory call takes its fields from the form at the tap; when
\* its save succeeds, the first persisted record and the first in-memory one
\* read as the trimmed title and description, the emoji, the draft photo (or
\* undefined) and the location of the call; the form is back at its defaults
\* and the composer closed.
C8_StoredRecordIsForm ==
  [][/\ (create.pc = "idle" /\ create'.pc # "idle") =>
          /\ create'.title = title
          /\ create'.description = description
          /\ create'.selectedEmoji = selectedEmoji
          /\ create'.capturedPhoto = capturedPhoto
     /\ CreateSave(TRUE) =>
          /\ \A r \in {Persisted'[1], memories'[1]} :
               /\ Get(r, "title") = Trim(create.title)
               /\ Get(r, "description") = Trim(create.description)
               /\ Get(r, "emoji") = create.selectedEmoji
               /\ Get(r, "photoUri") = IF create.capturedPhoto = Null
                                       THEN Undefined ELSE create.capturedPhoto
               /\ Get(r, "location") = create.location
          /\ title' = <<>> /\ description' = <<>>
          /\ selectedEmoji' = "pin" /\ capturedPhoto' = Null
          /\ modalVisible' = FALSE]_vars

\* A record made from a fully filled form is stored, and the form is reset.
C8_Witness ==
  /\ Len(Persisted) = 1 /\ Len(memories) = 1
  /\ Persisted[1].title = <<"a">> /\ Persisted[1].description = <<"d">>
  /\ Persisted[1].emoji = "coffee" /\ Get(Persisted[1], "photoUri") = "file1"
  /\ Persisted[1].location.address # <<>>
  /\ alerts = <<MsgSuccess>>
  /\ title = <<>> /\ description = <<>> /\ selectedEmoji = "pin"
  /\ capturedPhoto = Null /\ ~modalVisible

Ids(ms) == {ms[i].id : i \in 1..Len(ms)}

\* C11: when the write of a confirmed deleteMemory succeeds and its id is in
\* neither the in-memory collection nor the persisted one, the step leaves
\* both as they were and shows no alert.
C11_AbsentIdIsNoOp ==
  [][(DeleteSave(TRUE) /\ del.id \notin Ids(memories) \cup Ids(Persisted)) =>
       /\ SameRecords(memories', memories)
       /\ SameRecords(Persisted', Persisted)
       /\ alerts' = alerts]_vars

\* C12: the blob is a fixed point of load-then-save: stringifying what a
\* load returns from it gives the same text, sorting it changes nothing, and
\* loading that text gives the same sequence; a successful loadMemories
\* publishes that sequence; and a load right after a successful save yields
\* the in-memory collection the save published, record for record, in order.
C12_SaveLoadFixedPoint ==
  /\ [](storage.kind = "json" =>
          LET loaded == Reloaded(storage)
          IN  /\ JSONstringify(loaded) = storage.text
              /\ Sort(loaded) = loaded
              /\ SameRecords(Reloaded(Blob(JSONstringify(loaded))), loaded))
  /\ [][/\ (loadMemories(TRUE) /\ storage.kind = "json") =>
             memories' = Reloaded(storage)
        /\ (CreateSave(TRUE) \/ DeleteSave(TRUE)) =>
             SameRecords(Reloaded(storage'), memories')]_vars

\* A load has returned two records of equal timestamp (they lack the
\* photoUri key that records have before they are written).
C12_Witness ==
  /\ loadPc = "done" /\ Len(memories) = 2
  /\ memories = Reloaded(storage)
  /\ memories[1].timestamp = memories[2].timestamp
  /\ \A i \in 1..2 : "photoUri" \notin DOMAIN memories[i]

PhotoIds(ps) == [k \in 1..Len(ps) |-> ps[k].id]
IdSet(ps) == {ps[k].id : k \in 1..Len(ps)}

\* C13: the list a loadPhotos call publishes has one entry for each id of
\* its album photos and its roll photos and no other; the entry of an id the
\* roll page holds is the roll's photo, that of any other id the album's;
\* the list is ordered by creationTime, newest first; and album [a:5, b:3]
\* with roll [b:3, c:8] gives [c, a, b].
C13_MergedOncePerId ==
  [][\A i \in 1..MaxPhotoLoads, outcomes \in AllInfoOutcomes :
       LoadPhotosRecentInfo(i, outcomes) =>
         LET album == photoLoads[i].allPhotos
             roll == PhotoInfos(photoLoads[i].assets, outcomes)
         IN  /\ IdSet(photos') = IdSet(album) \cup IdSet(roll)
             /\ \A k, l \in 1..Len(photos') :
                  photos'[k].id = photos'[l].id => k = l
             /\ \A k \in 1..Len(photos') :
                  IF photos'[k].id \in IdSet(roll)
                  THEN \E r \in 1..Len(roll) : photos'[k] = roll[r]
                  ELSE \E a \in 1..Len(album) : photos'[k] = album[a]
             /\ \A k, l \in 1..Len(photos') :
                  k < l => photos'[k].creationTime >= photos'[l].creationTime
             /\ (PhotoIds(album) = <<"a", "b">> /\ PhotoIds(roll) = <<"b", "c">>) =>
                  PhotoIds(photos') = <<"c", "a", "b">>]_vars

\* A load has published [c, a, b]: with pages of at most two assets, three
\* photos come from an album page and a roll page.
C13_Witness ==
  /\ PhotoIds(photos) = <<"c", "a", "b">>
  /\ photoLoads = <<>> /\ ~galleryLoading

\* C14: when resolving the URI of assets of a page fails, the batch still
\* yields one photo per asset of the page, in the page's order; the photo of
\* an asset whose resolution failed carries the asset's own uri; the call
\* goes on to the roll query or publishes a list that holds every asset of
\* the page, and shows no alert.
C14_ItemFailureKeepsBatch ==
  [][\A i \in 1..MaxPhotoLoads, outcomes \in AllInfoOutcomes :
       /\ LoadPhotosAlbumInfo(i, outcomes) =>
            LET page == photoLoads[i].assets
                batch == photoLoads'[i].allPhotos
            IN  /\ Len(batch) = Len(page)
                /\ \A k \in 1..Len(page) :
                     /\ batch[k].id = page[k].id
                     /\ outcomes[k] = "throws" => batch[k].uri = page[k].uri
                /\ photoLoads'[i].pc = "recent"
                /\ alerts' = alerts
       /\ LoadPhotosRecentInfo(i, outcomes) =>
            LET page == photoLoads[i].assets
            IN  /\ \A k \in 1..Len(page) :
                     \E n \in 1..Len(photos') :
                       /\ photos'[n].id = page[k].id
                       /\ outcomes[k] = "throws" => photos'[n].uri = page[k].uri
                /\ IdSet(photoLoads[i].allPhotos) \subseteq IdSet(photos')
                /\ alerts' = alerts]_vars

\* A published list holds a photo whose resolution failed (it has the
\* asset's uri and no localUri) next to one that was resolved.
C14_Witness ==
  /\ Len(photos) = 2 /\ alerts = <<>>
  /\ "localUri" \notin DOMAIN photos[1] /\ photos[1].uri = AssetUri(photos[1].id)
  /\ "localUri" \in DOMAIN photos[2] /\ photos[2].uri = LocalUri(photos[2].id)

\* C15: when the album lookup answers null or rejects, or the album query
\* rejects, the call shows no alert and goes on to the roll query with no
\* album photos; a call without album photos publishes exactly the photos
\* of its roll page; a page holds at most PageSize assets (first: 50) and
\* the published list at most two pages.
C15_AlbumAbsenceIsNoError ==
  /\ [][\A i \in 1..MaxPhotoLoads :
          /\ (\E r \in {"none", "throws"} : LoadPhotosAlbum(i, r)) =>
               /\ alerts' = alerts
               /\ Len(photoLoads') = Len(photoLoads)
               /\ photoLoads'[i].pc = "recent"
               /\ photoLoads'[i].allPhotos = <<>>
               /\ UNCHANGED <<photos, galleryLoading>>
          /\ LoadPhotosAlbumAssets(i, TRUE, <<>>) =>
               /\ alerts' = alerts
               /\ photoLoads'[i].allPhotos = <<>>
               /\ UNCHANGED <<photos, galleryLoading>>
          /\ (\E outcomes \in AllInfoOutcomes :
                /\ LoadPhotosRecentInfo(i, outcomes)
                /\ photoLoads[i].allPhotos = <<>>) =>
               /\ alerts' = alerts
               /\ Len(photos') = Len(photoLoads[i].assets)
               /\ IdSet(photos') = IdSet(photoLoads[i].assets)]_vars
  /\ [](/\ Len(photos) <= 2 * PageSize
        /\ \A i \in 1..Len(photoLoads) :
             /\ Len(photoLoads[i].assets) <= PageSize
             /\ Len(photoLoads[i].allPhotos) <= PageSize)

\* A call that has no album photos holds a full roll page, which it is about
\* to publish, and no alert is up.
C15_Witness ==
  /\ Len(photoLoads) = 1 /\ photoLoads[1].pc = "recentInfo"
  /\ photoLoads[1].allPhotos = <<>> /\ Len(photoLoads[1].assets) = PageSize
  /\ alerts = <<>> /\ galleryLoading /\ photos = <<>>

\* C16: the flag isCapturing is up exactly while a takePicture call is in
\* flight and the flag loading exactly while a createMemory call is; a tap
\* starts a call only when no call of its kind is in flight, so that there
\* are never two.
C16_OneFlowInFlight ==
  /\ [](isCapturing <=> capture # "idle")
  /\ [](loading <=> create.pc # "idle")
  /\ [][/\ TakePictureTap => (capture = "idle" /\ capture' # "idle")
        /\ (CreateTap(ComposerMaxMemories) /\ loading') =>
             (create.pc = "idle" /\ create'.pc # "idle")]_vars

\* A takePicture call and a createMemory call are in flight, both flags up.
C16_Witness ==
  /\ isCapturing /\ capture = "asset"
  /\ loading /\ create.pc = "geocode"

\* C17: in every step, each persisted record was persisted before with the
\* same fields or is the record the createMemory call has just built; a
\* record leaves the persisted collection only in the successful save of a
\* confirmed deleteMemory of its id; and Cancel changes neither the blob nor
\* the in-memory collection.
C17_OnlyDeleteRemoves ==
  [][/\ RecordSet(Persisted') \subseteq
          RecordSet(Persisted) \cup
            (IF create.pc = "saving" THEN {View(create.newMemory)} ELSE {})
     /\ \A v \in RecordSet(Persisted) \ RecordSet(Persisted') :
          DeleteSave(TRUE) /\ v.id = del.id
     /\ DeleteCancel => (storage' = storage /\ memories' = memories)]_vars

\* C18: when reverseGeocodeAsync rejects, getCurrentLocation still returns:
\* no alert is shown, the call stays in flight and builds a record with the
\* coordinates it obtained and the address ''; and a successful save stores
\* the record with the location the call holds.
C18_GeocodeFailureKeepsCoordinates ==
  [][/\ (\E address \in Addresses : CreateGeocode(TRUE, address)) =>
          /\ alerts' = alerts
          /\ loading'
          /\ create'.pc = "saving"
          /\ create'.newMemory.location =
               [latitude |-> create.location.latitude,
                longitude |-> create.location.longitude,
                address |-> <<>>]
          /\ create'.newMemories[1] = create'.newMemory
     /\ CreateSave(TRUE) =>
          /\ Get(Persisted'[1], "location") = create.newMemory.location
          /\ memories'[1].location = create.newMemory.location]_vars

\* A record with coordinates and no address is stored.
C18_Witness ==
  /\ Len(Persisted) = 1 /\ Len(memories) = 1
  /\ Persisted[1].location = [latitude |-> 40, longitude |-> -73, address |-> <<>>]
  /\ memories[1].location = Persisted[1].location
  /\ create.pc = "idle"

\* C19: once the map screen has loaded, whenever an append or a remove has
\* been saved, the records the map screen's list and markers are made of
\* are the records of the store, in the store's order, and the record of an
\* open detail view is one of them.
C19_MapShowsTheStore ==
  [][((CreateSave(TRUE) \/ DeleteSave(TRUE)) /\ mapLoadPc = "done") =>
       /\ SameRecords(mapMemories', Persisted')
       /\ mapModalVisible' =>
            \E i \in 1..Len(Persisted') : SameFields(selectedMemory', Persisted'[i])]_vars

C21_LoadWritesNothingSaveOverwrites ==
  [][/\ (loadMemories(TRUE) /\ storage = Absent) =>
          (memories' = <<>> /\ storage' = Absent)
     /\ loadMemories(FALSE) => storage' = storage
     /\ CreateSave(TRUE) =>
          /\ storage' = Blob(JSONstringify(create.newMemories))
          /\ SameRecords(Persisted', create.newMemories)
     /\ DeleteSave(TRUE) =>
          /\ storage' = Blob(JSONstringify(del.newMemories))
          /\ SameRecords(Persisted', del.newMemories)
     /\ (CreateSave(FALSE) \/ DeleteSave(FALSE)) => storage' = storage]_vars

\* A createMemory that captured an empty collection has replaced an item
\* that held the record "0" (still listed when its delete prompt opened) by
\* the serialization of its own record alone.
C21_Witness ==
  /\ del.pc = "prompt"
  /\ Len(del.memories) = 1 /\ del.memories[1].id = "0"
  /\ Len(Persisted) = 1 /\ Persisted[1].id = "1"
  /\ create.pc = "idle"

\* The steps of pickImage / takePhoto.
PickerStep ==
  \/ PickerTap
  \/ \E r \in PermissionResults : PickerPermission(r)
  \/ \E result \in PickerResults : PickerResult(result)

\* What pickImage / takePhoto may change, and what a cancelled pick, a denied
\* permission or a failure leaves alone.
PickerFrame ==
  /\ PickerStep =>
       UNCHANGED <<storage, memories, title, description, selectedEmoji,
                   modalVisible, loading, create, del>>
  /\ (PickerTap \/ \E r \in PermissionResults : PickerPermission(r)) =>
       UNCHANGED capturedPhoto
  /\ PickerResult("canceled") => UNCHANGED <<capturedPhoto, alerts>>
  /\ PickerResult("throws") => UNCHANGED capturedPhoto
  /\ \A uri \in PhotoUris : PickerResult(uri) => capturedPhoto' = uri

\* The photoUri a record gets from a draft slot: the reference, none for an
\* empty slot.
PhotoUriOf(draft) == IF draft = Null THEN Undefined ELSE draft

\* C22 as stated: pickImage / takePhoto change only the draft photo slot, a
\* cancelled pick, a denied permission or a failure changes nothing, and the
\* photoUri of the record createMemory builds, which a successful save
\* stores, is the draft reference held when the record is built.
C22_PhotoOfDraftAtBuild ==
  [][/\ PickerFrame
     /\ (\E rejects \in BOOLEAN, address \in Addresses :
           CreateGeocode(rejects, address)) =>
          Get(create'.newMemory, "photoUri") = PhotoUriOf(capturedPhoto)
     /\ CreateSave(TRUE) =>
          Get(Persisted'[1], "photoUri") = Get(create.newMemory, "photoUri")]_vars

\* C22 amended: as above, but the photoUri is the draft reference held when
\* createMemory was called (Save was tapped).
C22_PhotoOfDraftAtTap ==
  [][/\ PickerFrame
     /\ (create.pc = "idle" /\ create'.pc # "idle") =>
          create'.capturedPhoto = capturedPhoto
     /\ create.pc # "idle" /\ create'.pc # "idle" =>
          create'.capturedPhoto = create.capturedPhoto
     /\ (\E rejects \in BOOLEAN, address \in Addresses :
           CreateGeocode(rejects, address)) =>
          Get(create'.newMemory, "photoUri") = PhotoUriOf(create.capturedPhoto)
     /\ CreateSave(TRUE) =>
          /\ Get(Persisted'[1], "photoUri") = PhotoUriOf(create.capturedPhoto)
          /\ Get(memories'[1], "photoUri") = PhotoUriOf(create.capturedPhoto)]_vars

\* createMemory has built a record with the photo held when Save was
\* tapped; the draft slot was emptied while the call was in flight.
C22_Witness ==
  /\ create.pc = "saving"
  /\ create.capturedPhoto = "file1"
  /\ Get(create.newMemory, "photoUri") = "file1"
  /\ capturedPhoto = Null

\* C23: the saves of two flows are not serialized.  A successful save
\* leaves in the item the collection its flow made from the collection it
\* captured when it started (the new record put before it, or the deleted id
\* filtered out of it), whatever another flow has saved since; the witness
\* is the interleaving in which that loses the other flow's update.
C23_LastSaveWins ==
  [][/\ CreateSave(TRUE) =>
          SameRecords(Persisted', <<create.newMemory>> \o create.memories)
     /\ DeleteSave(TRUE) =>
          SameRecords(Persisted', FilterOut(del.memories, del.id))]_vars

\* Both saves have succeeded: the create's first (its success notice is
\* still up, and the delete prompt could only be opened before it), then the
\* delete's, whose collection was filtered before the new record existed.
\* The item holds no record: the new one is lost.
C23_Witness ==
  /\ storage.kind = "json" /\ Persisted = <<>>
  /\ memories = <<>>
  /\ alerts = <<MsgSuccess>>
  /\ create.pc = "idle" /\ del.pc = "idle"

\* The order of the awaits inside each flow.
CreateRank == [permission |-> 1, position |-> 2, geocode |-> 3, saving |-> 4]
CaptureRank == [permission |-> 1, shoot |-> 2, asset |-> 3, album |-> 4,
                albumStore |-> 5]
LoadRank == [permission |-> 1, album |-> 2, albumAssets |-> 3, albumInfo |-> 4,
             recent |-> 5, recentInfo |-> 6]

\* Every started createMemory and takePicture finishes with its flag
\* cleared; the loadPhotos calls all finish, with the flag cleared, again and
\* again unless refreshes keep being started.
FlowsFinish ==
  /\ (create.pc # "idle") ~> (create.pc = "idle" /\ ~loading)
  /\ (capture # "idle") ~> (capture = "idle" /\ ~isCapturing)
  /\ \/ []<>(photoLoads = <<>> /\ ~galleryLoading)
     \/ []<><<LoadPhotosRefresh(MaxPhotoLoads)>>_vars

\* A flow starts in a press of its button only (the first loadPhotos is
\* started by the mount), the step that finishes it clears its flag, and
\* every other step takes it to a later await: nothing is tried again.
FlowsNeverReissue ==
  /\ (create.pc = "idle" /\ create'.pc # "idle") => CreateTap(ComposerMaxMemories)
  /\ (capture = "idle" /\ capture' # "idle") => TakePictureTap
  /\ Len(photoLoads') > Len(photoLoads) => LoadPhotosRefresh(MaxPhotoLoads)
  /\ CreateSettle =>
       IF create'.pc = "idle" THEN ~loading'
       ELSE CreateRank[create'.pc] > CreateRank[create.pc]
  /\ CaptureSettle =>
       IF capture' = "idle" THEN ~isCapturing'
       ELSE CaptureRank[capture'] > CaptureRank[capture]
  /\ \A i \in 1..MaxPhotoLoads :
       LoadSettle(i) =>
         IF Len(photoLoads') < Len(photoLoads)
         THEN photoLoads' = RemoveAt(photoLoads, i)
         ELSE LoadRank[photoLoads'[i].pc] > LoadRank[photoLoads[i].pc]

\* The failures that end in a catch block that alerts.
AlertedFailure(msg) ==
  \/ msg = MsgLocation /\ (CreatePermission("throws") \/ CreatePosition(TRUE))
  \/ msg = MsgSaveFailed /\ CreateSave(FALSE)
  \/ /\ msg = MsgTakeFailed
     /\ \/ TakePicturePermission("throws")
        \/ TakePictureShoot("throws")
        \/ TakePictureAsset(TRUE)
  \/ msg = MsgLoadPhotosFailed /\ \E i \in 1..MaxPhotoLoads : LoadPhotosRecent(i, TRUE, <<>>)

\* The failures that are logged only: of reverse geocoding, of the gallery's
\* album lookup and album query, of an asset info lookup.
LoggedFailure ==
  \/ \E address \in Addresses : CreateGeocode(TRUE, address)
  \/ \E i \in 1..MaxPhotoLoads :
       \/ LoadPhotosAlbum(i, "throws")
       \/ LoadPhotosAlbumAssets(i, TRUE, <<>>)
       \/ \E outcomes \in AllInfoOutcomes :
            /\ \E k \in DOMAIN outcomes : outcomes[k] = "throws"
            /\ LoadPhotosAlbumInfo(i, outcomes) \/ LoadPhotosRecentInfo(i, outcomes)

\* The failures of the camera's album update: logged, and the success
\* notice is shown.
AlbumFailure == TakePictureAlbum(TRUE) \/ TakePictureAlbumStore(TRUE)

\* A rejection of requestPermission() in loadPhotos, which is awaited
\* outside the try.
UncaughtFailure == \E i \in 1..MaxPhotoLoads : LoadPhotosPermission(i, "throws")

C25_SuccessMeansStored ==
  [][(/\ \E ok \in BOOLEAN : CreateSave(ok)
      /\ Len(alerts') > Len(alerts) /\ alerts'[Len(alerts')] = MsgSuccess
      /\ title' = <<>> /\ capturedPhoto' = Null /\ ~modalVisible') =>
       /\ \E i \in 1..Len(Persisted') : SameFields(Persisted'[i], create.newMemory)
       /\ \E i \in 1..Len(memories') : SameFields(memories'[i], create.newMemory)]_vars

\* C26: an id that is in neither the item nor the list (a confirmed delete
\* of it has been saved) is not in the item after the save of any operation
\* that completes later, unless it is the id of the record that operation
\* has just built.
C26_DeletedStaysDeleted ==
  [][/\ CreateSave(TRUE) =>
          \A id \in Ids(Persisted') \ (Ids(Persisted) \cup Ids(memories)) :
            id = create.newMemory.id
     /\ DeleteSave(TRUE) =>
          Ids(Persisted') \subseteq Ids(Persisted) \cup Ids(memories)]_vars

\* C27: in every state the gallery's photos list holds no id twice and is
\* ordered by creationTime, latest first, whatever loadPhotos calls have
\* published and deletePhoto calls have removed.
C27_PhotosDistinctAndOrdered ==
  /\ \A i, j \in 1..Len(photos) : i # j => photos[i].id # photos[j].id
  /\ \A i \in 1..(Len(photos) - 1) :
       photos[i].creationTime >= photos[i + 1].creationTime

\* A deletePhoto call has succeeded on what loadPhotos published: "c" and
\* "b" are left, in this order.
C27_Witness ==
  /\ PhotoIds(photos) = <<"c", "b">>
  /\ alerts = <<MsgPhotoDeleted>>
  /\ photoLoads = <<>> /\ photoDeletes = <<>>

\* C28: the step in which deleteAssetsAsync resolves with true removes the
\* photos of that id from the list, closes the photo modal and shows the
\* success alert; the step in which it resolves with false or rejects leaves
\* the list and the modal as they were and shows the error alert; Cancel of
\* the prompt changes nothing.
C28_DeleteOnlyOnSuccess ==
  [][/\ \A i \in 1..MaxPhotoDeletes :
          /\ DeletePhotoResult(i, "deleted") =>
               /\ photos' = FilterOutPhoto(photos, photoDeletes[i])
               /\ photoDeletes[i] \notin IdSet(photos')
               /\ ~galleryModalVisible'
               /\ alerts' = Append(alerts, MsgPhotoDeleted)
          /\ (DeletePhotoResult(i, "refused") \/ DeletePhotoResult(i, "throws")) =>
               /\ photos' = photos
               /\ galleryModalVisible' = galleryModalVisible
               /\ selectedPhoto' = selectedPhoto
               /\ alerts' = Append(alerts, MsgPhotoDeleteFailed)
     /\ (DeletePhotoCancel \/ DeletePhotoConfirm) =>
          UNCHANGED <<photos, galleryModalVisible, selectedPhoto, alerts>>]_vars

\* A deletion has failed: the error alert is up, the modal is still open on
\* the photo, which is still listed.
C28_Witness ==
  /\ alerts = <<MsgPhotoDeleteFailed>>
  /\ galleryModalVisible
  /\ selectedPhoto # <<>>
  /\ selectedPhoto[1].id \in IdSet(photos)
  /\ photoDeletes = <<>>

\* C29: while a loadPhotos call is between its setLoading(true) and its
\* finally block, the loading flag is true, also when two calls overlap.
C29_LoadingWhileOutstanding ==
  (\E i \in 1..Len(photoLoads) : photoLoads[i].pc # "permission")
    => galleryLoading

\* The photo modal is visible only with a selected photo.
GalleryModalHasSelection == galleryModalVisible => selectedPhoto # <<>>

\* The memory detail modal is visible only with a selected memory, which is
\* one of the screen's records.
MapModalHasSelection ==
  mapModalVisible => \E i \in 1..Len(mapMemories) : mapMemories[i] = selectedMemory

\* The photo of the visible photo modal is in the photos list.
SelectedPhotoListed ==
  (galleryModalVisible /\ selectedPhoto # <<>>)
    => selectedPhoto[1].id \in IdSet(photos)

\* C30: on the gallery screen and on the map screen a visible detail modal
\* has a selected item, and the gallery's selected photo is in the photos
\* list.
C30_VisibleModalShowsListedItem ==
  /\ GalleryModalHasSelection
  /\ MapModalHasSelection
  /\ SelectedPhotoListed

====
